---- MODULE Spec2Model ----
(***************************************************************************)
(* A model of clean_rss.py: the aggregation of a ranked hotlist feed into  *)
(* a feed with a single item.  Texts are sequences of characters (one      *)
(* string per character), so that stripping, parsing, formatting, percent  *)
(* encoding and HTML escaping are computed character by character.         *)
(***************************************************************************)
EXTENDS Integers, Sequences, FiniteSets, TLC

(***************************************************************************)
(* Bounds of the model.                                                    *)
(***************************************************************************)
MaxItems == 2
MaxLinkLen == 4

(***************************************************************************)
(* Characters and str methods.                                             *)
(***************************************************************************)
None == <<"None">>

Spaces == {" ", "\n"}

IsSpace(c) == c \in Spaces

RECURSIVE JoinLines(_)
JoinLines(ss) ==
  IF ss = <<>> THEN <<>>
  ELSE IF Len(ss) = 1 THEN ss[1]
  ELSE ss[1] \o <<"\n">> \o JoinLines(Tail(ss))

RECURSIVE LStrip(_)
LStrip(t) == IF t # <<>> /\ IsSpace(Head(t)) THEN LStrip(Tail(t)) ELSE t

RECURSIVE RStrip(_)
RStrip(t) ==
  IF t # <<>> /\ IsSpace(t[Len(t)]) THEN RStrip(SubSeq(t, 1, Len(t) - 1)) ELSE t

Strip(t) == RStrip(LStrip(t))

StripAll(t) == SelectSeq(t, LAMBDA c : ~IsSpace(c))

\* str.find: the first index of c in t at or after position from, 0 if none.
RECURSIVE Find(_, _, _)
Find(t, c, from) ==
  IF from > Len(t) THEN 0
  ELSE IF t[from] = c THEN from
  ELSE Find(t, c, from + 1)

Contains(t, c) == Find(t, c, 1) # 0

\* str.split(sep): the pieces of t between the occurrences of sep.
RECURSIVE Split(_, _)
Split(t, sep) ==
  LET i == Find(t, sep, 1) IN
  IF i = 0 THEN <<t>>
  ELSE <<SubSeq(t, 1, i - 1)>> \o Split(SubSeq(t, i + 1, Len(t)), sep)

DigitChars == <<"0", "1", "2", "3", "4", "5", "6", "7", "8", "9">>

IsDigit(c) == \E i \in 1..10 : DigitChars[i] = c

DigitVal(c) == (CHOOSE i \in 1..10 : DigitChars[i] = c) - 1

RECURSIVE NumVal(_)
NumVal(t) ==
  IF t = <<>> THEN 0
  ELSE 10 * NumVal(SubSeq(t, 1, Len(t) - 1)) + DigitVal(t[Len(t)])

D2(n) == <<DigitChars[(n \div 10) + 1], DigitChars[(n % 10) + 1]>>

D4(n) == D2(n \div 100) \o D2(n % 100)

RECURSIVE DMin(_)
DMin(n) == IF n < 10 THEN <<DigitChars[n + 1]>> ELSE DMin(n \div 10) \o <<DigitChars[(n % 10) + 1]>>

(***************************************************************************)
(* The proleptic Gregorian calendar of datetime.                           *)
(***************************************************************************)
DayAbbr == << <<"M","o","n">>, <<"T","u","e">>, <<"W","e","d">>, <<"T","h","u">>,
              <<"F","r","i">>, <<"S","a","t">>, <<"S","u","n">> >>

MonAbbr == << <<"J","a","n">>, <<"F","e","b">>, <<"M","a","r">>, <<"A","p","r">>,
              <<"M","a","y">>, <<"J","u","n">>, <<"J","u","l">>, <<"A","u","g">>,
              <<"S","e","p">>, <<"O","c","t">>, <<"N","o","v">>, <<"D","e","c">> >>

IsLeap(y) == y % 4 = 0 /\ (y % 100 # 0 \/ y % 400 = 0)

DaysInMonth(y, m) ==
  IF m = 2 THEN (IF IsLeap(y) THEN 29 ELSE 28)
  ELSE IF m \in {4, 6, 9, 11} THEN 30 ELSE 31

RECURSIVE DaysBeforeMonth(_, _)
DaysBeforeMonth(y, m) ==
  IF m = 1 THEN 0 ELSE DaysBeforeMonth(y, m - 1) + DaysInMonth(y, m - 1)

DaysBeforeYear(y) ==
  LET p == y - 1 IN p * 365 + p \div 4 - p \div 100 + p \div 400

Ymd2Ord(y, m, d) == DaysBeforeYear(y) + DaysBeforeMonth(y, m) + d

RECURSIVE MonthOf(_, _, _)
MonthOf(y, m, n) ==
  IF n < DaysInMonth(y, m) THEN <<m, n + 1>> ELSE MonthOf(y, m + 1, n - DaysInMonth(y, m))

\* The year, month and day of ordinal n >= 1 (1 is 0001-01-01).
Ord2Ymd(ord) ==
  LET n0 == ord - 1
      n400 == n0 \div 146097
      r400 == n0 % 146097
      n100 == r400 \div 36524
      r100 == r400 % 36524
      n4 == r100 \div 1461
      r4 == r100 % 1461
      n1 == r4 \div 365
      r1 == r4 % 365
      year == n400 * 400 + n100 * 100 + n4 * 4 + n1 + 1
  IN IF n1 = 4 \/ n100 = 4 THEN <<year - 1, 12, 31>>
     ELSE LET md == MonthOf(year, 1, r1) IN <<year, md[1], md[2]>>

\* datetime.weekday(): Monday is 0.
Weekday(y, m, d) == (Ymd2Ord(y, m, d) + 6) % 7

(***************************************************************************)
(* datetime values: wall-clock fields and the UTC offset of the tzinfo, in *)
(* minutes.                                                                *)
(***************************************************************************)
\* pytz.timezone("Asia/Shanghai") used directly as a tzinfo carries the
\* first offset of the zone's table, local mean time +8:06.
LmtOffsetMinutes == 486

\* The offset pytz selects for an instant of the present, China Standard Time.
CstOffsetMinutes == 480

MkDt(y, mo, d, h, mi, s, off) ==
  [y |-> y, mo |-> mo, d |-> d, h |-> h, mi |-> mi, s |-> s, off |-> off]

NoDt == MkDt(0, 0, 0, 0, 0, 0, 0)

WallClock(dt) == <<dt.y, dt.mo, dt.d, dt.h, dt.mi, dt.s>>

\* dt + timedelta(minutes = delta), in the arithmetic of datetime: days and
\* seconds of the day.  ok is FALSE when the date leaves year 1..9999.
ShiftMinutes(dt, delta, off) ==
  LET sod == dt.h * 3600 + dt.mi * 60 + dt.s + delta * 60
      ord == Ymd2Ord(dt.y, dt.mo, dt.d) + (sod \div 86400)
      rem == sod % 86400
  IN IF ord < 1 \/ ord > Ymd2Ord(9999, 12, 31)
     THEN [ok |-> FALSE, dt |-> NoDt]
     ELSE LET ymd == Ord2Ymd(ord) IN
          [ok |-> TRUE,
           dt |-> MkDt(ymd[1], ymd[2], ymd[3], rem \div 3600, (rem % 3600) \div 60,
                       rem % 60, off)]

\* dt.astimezone(timezone.utc): subtract the offset of dt's tzinfo.
AstimezoneUtc(dt) == ShiftMinutes(dt, 0 - dt.off, 0)

\* datetime.now(BEIJING_TZ): pytz's fromutc converts the UTC clock reading with
\* the offset in force at that instant.
NowIn(utcnow) == ShiftMinutes(utcnow, CstOffsetMinutes, CstOffsetMinutes).dt

\* naive_dt.replace(tzinfo=BEIJING_TZ): same wall clock, the zone object's
\* own offset.
ReplaceTzinfo(naive) == [naive EXCEPT !.off = LmtOffsetMinutes]

(***************************************************************************)
(* strftime.  %Y of a year below 1000 is padded to four digits or not,     *)
(* depending on the C library and the Python version (pad).                *)
(***************************************************************************)
FmtYear(y, pad) == IF pad THEN D4(y) ELSE DMin(y)

\* The same pattern with %I, the hour of the twelve-hour clock, for %H.
StrftimeRfc822TwelveHour(dt, pad) ==
  DayAbbr[Weekday(dt.y, dt.mo, dt.d) + 1] \o <<",", " ">> \o D2(dt.d) \o <<" ">>
    \o MonAbbr[dt.mo] \o <<" ">> \o FmtYear(dt.y, pad) \o <<" ">>
    \o D2(IF dt.h % 12 = 0 THEN 12 ELSE dt.h % 12) \o <<":">> \o D2(dt.mi) \o <<":">>
    \o D2(dt.s) \o <<" ", "G", "M", "T">>

\* "%a, %d %b %Y %H:%M:%S GMT"
StrftimeRfc822(dt, pad) ==
  DayAbbr[Weekday(dt.y, dt.mo, dt.d) + 1] \o <<",", " ">> \o D2(dt.d) \o <<" ">>
    \o MonAbbr[dt.mo] \o <<" ">> \o FmtYear(dt.y, pad) \o <<" ">>
    \o D2(dt.h) \o <<":">> \o D2(dt.mi) \o <<":">> \o D2(dt.s)
    \o <<" ", "G", "M", "T">>

\* "%Y-%m-%d %H:%M:%S"
StrftimeCapture(dt, pad) ==
  FmtYear(dt.y, pad) \o <<"-">> \o D2(dt.mo) \o <<"-">> \o D2(dt.d) \o <<" ">>
    \o D2(dt.h) \o <<":">> \o D2(dt.mi) \o <<":">> \o D2(dt.s)

\* "%Y年%m月%d日 %H:%M"
StrftimeTitle(dt, pad) ==
  FmtYear(dt.y, pad) \o <<"U5E74">> \o D2(dt.mo) \o <<"U6708">> \o D2(dt.d)
    \o <<"U65E5", " ">> \o D2(dt.h) \o <<":">> \o D2(dt.mi)

\* "%Y%m%d%H%M%S"
StrftimeGuid(dt, pad) ==
  FmtYear(dt.y, pad) \o D2(dt.mo) \o D2(dt.d) \o D2(dt.h) \o D2(dt.mi) \o D2(dt.s)

(***************************************************************************)
(* strptime.  A cursor [ok, pos, val] walks the text as the regular        *)
(* expression compiled from the format does: a name of the locale, a       *)
(* literal, \s+ for a blank of the format, and a run of digits that the    *)
(* directive's pattern accepts as a whole.                                 *)
(***************************************************************************)
Cursor(ok, pos, val) == [ok |-> ok, pos |-> pos, val |-> val]

Bad == Cursor(FALSE, 0, 0)

PLit(t, c, lit) ==
  IF c.ok /\ c.pos + Len(lit) - 1 <= Len(t) /\ SubSeq(t, c.pos, c.pos + Len(lit) - 1) = lit
  THEN Cursor(TRUE, c.pos + Len(lit), c.val) ELSE Bad

RECURSIVE SkipWs(_, _)
SkipWs(t, p) == IF p <= Len(t) /\ IsSpace(t[p]) THEN SkipWs(t, p + 1) ELSE p

PWs(t, c) ==
  IF c.ok /\ SkipWs(t, c.pos) > c.pos THEN Cursor(TRUE, SkipWs(t, c.pos), c.val) ELSE Bad

PName(t, c, names) ==
  IF c.ok /\ c.pos + 2 <= Len(t)
       /\ \E i \in 1..Len(names) : names[i] = SubSeq(t, c.pos, c.pos + 2)
  THEN Cursor(TRUE, c.pos + 3,
              CHOOSE i \in 1..Len(names) : names[i] = SubSeq(t, c.pos, c.pos + 2))
  ELSE Bad

RECURSIVE SkipDigits(_, _)
SkipDigits(t, p) == IF p <= Len(t) /\ IsDigit(t[p]) THEN SkipDigits(t, p + 1) ELSE p

\* A run of minLen..maxLen digits with a value in lo..hi.
PNum(t, c, minLen, maxLen, lo, hi) ==
  IF ~c.ok THEN Bad
  ELSE LET e == SkipDigits(t, c.pos)
           n == e - c.pos
       IN IF n < minLen \/ n > maxLen THEN Bad
          ELSE LET v == NumVal(SubSeq(t, c.pos, e - 1)) IN
               IF v < lo \/ v > hi THEN Bad
               ELSE Cursor(TRUE, e, v)

\* datetime.strptime(text, "%a, %d %b %Y %H:%M:%S GMT") when gmt, and
\* datetime.strptime(text, "%a, %d %b %Y %H:%M:%S") otherwise.  ok is FALSE
\* where strptime raises ValueError.
Strptime(t, gmt) ==
  LET c1 == PName(t, Cursor(TRUE, 1, 0), DayAbbr)
      c2 == PWs(t, PLit(t, c1, <<",">>))
      cD == PNum(t, c2, 1, 2, 1, 31)
      cB == PName(t, PWs(t, cD), MonAbbr)
      cY == PNum(t, PWs(t, cB), 4, 4, 0, 9999)
      cH == PNum(t, PWs(t, cY), 1, 2, 0, 23)
      cM == PNum(t, PLit(t, cH, <<":">>), 1, 2, 0, 59)
      cS == PNum(t, PLit(t, cM, <<":">>), 1, 2, 0, 61)
      cE == IF gmt THEN PLit(t, PWs(t, cS), <<"G", "M", "T">>) ELSE cS
  IN IF ~cE.ok \/ cE.pos # Len(t) + 1 THEN [ok |-> FALSE, dt |-> NoDt]
     ELSE IF cY.val < 1 \/ cD.val > DaysInMonth(cY.val, cB.val) \/ cS.val > 59
          THEN [ok |-> FALSE, dt |-> NoDt]
          ELSE [ok |-> TRUE, dt |-> MkDt(cY.val, cB.val, cD.val, cH.val, cM.val, cS.val, 0)]

(***************************************************************************)
(* parse_last_build_date.  kind is "parsed" or "defaulted" for the two     *)
(* ways it returns, "overflow" where astimezone raises OverflowError.      *)
(***************************************************************************)
Defaulted(utcnow) ==
  LET bj == NowIn(utcnow) IN
  [kind |-> "defaulted", bj |-> bj, gmt |-> AstimezoneUtc(bj).dt]

Localized(naive) ==
  LET bj == ReplaceTzinfo(naive)
      u == AstimezoneUtc(bj)
  IN IF u.ok THEN [kind |-> "parsed", bj |-> bj, gmt |-> u.dt]
     ELSE [kind |-> "overflow", bj |-> NoDt, gmt |-> NoDt]

parse_last_build_date(value, utcnow) ==
  IF value = None \/ value = <<>> THEN Defaulted(utcnow)
  ELSE LET text == Strip(value)
           a == Strptime(text, TRUE)
           b == Strptime(text, FALSE)
       IN IF a.ok THEN Localized(a.dt)
          ELSE IF b.ok THEN Localized(b.dt)
          ELSE Defaulted(utcnow)

(***************************************************************************)
(* Code points, UTF-8 and percent encoding.                                *)
(***************************************************************************)
\* The printable ASCII characters, from code point 32 to 126.
AsciiPrintable ==
  <<" ", "!", "\"", "#", "$", "%", "&", "'", "(", ")", "*", "+",
  ",", "-", ".", "/", "0", "1", "2", "3", "4", "5", "6", "7",
  "8", "9", ":", ";", "<", "=", ">", "?", "@", "A", "B", "C",
  "D", "E", "F", "G", "H", "I", "J", "K", "L", "M", "N", "O",
  "P", "Q", "R", "S", "T", "U", "V", "W", "X", "Y", "Z", "[",
  "U005C", "]", "^", "_", "U0060", "a", "b", "c", "d", "e", "f", "g",
  "h", "i", "j", "k", "l", "m", "n", "o", "p", "q", "r", "s",
  "t", "u", "v", "w", "x", "y", "z", "{", "|", "}", "~">>

\* The characters outside ASCII that the program's texts use, named by code
\* point, and "UFFFD", the replacement character of a failed decoding.
WideChars == <<"U5FAE", "U535A", "U70ED", "U641C", "U699C", "U91C7", "U96C6", "U65F6", "U95F4", "U65E0", "U6807", "U9898", "U5E74", "U6708", "U65E5", "UFFFD">>

WideCodes == <<24494, 21338, 28909, 25628, 27036, 37319, 38598, 26102, 38388, 26080, 26631, 39064, 24180, 26376, 26085, 65533>>

AllChars ==
  {AsciiPrintable[i] : i \in DOMAIN AsciiPrintable} \cup {"\n"}
    \cup {WideChars[i] : i \in DOMAIN WideChars}

CodeOf ==
  [c \in AllChars |->
     IF c = "\n" THEN 10
     ELSE IF \E i \in DOMAIN AsciiPrintable : AsciiPrintable[i] = c
          THEN (CHOOSE i \in DOMAIN AsciiPrintable : AsciiPrintable[i] = c) + 31
          ELSE WideCodes[CHOOSE i \in DOMAIN WideChars : WideChars[i] = c]]

\* The character of a code point; a code point outside AllChars decodes to a
\* character the model does not tell apart from the replacement character.
CharOf(cp) ==
  IF \E c \in AllChars : CodeOf[c] = cp THEN CHOOSE c \in AllChars : CodeOf[c] = cp
  ELSE "UFFFD"

IsAscii(c) == CodeOf[c] < 128

IsAlpha(c) == (CodeOf[c] >= 65 /\ CodeOf[c] <= 90) \/ (CodeOf[c] >= 97 /\ CodeOf[c] <= 122)

IsAlnum(c) == IsAlpha(c) \/ IsDigit(c)

HexChars == <<"0", "1", "2", "3", "4", "5", "6", "7", "8", "9", "A", "B", "C", "D", "E", "F">>

LowerHex == <<"a", "b", "c", "d", "e", "f">>

IsHex(c) == (\E i \in 1..16 : HexChars[i] = c) \/ (\E i \in 1..6 : LowerHex[i] = c)

HexVal(c) ==
  IF \E i \in 1..16 : HexChars[i] = c THEN (CHOOSE i \in 1..16 : HexChars[i] = c) - 1
  ELSE (CHOOSE i \in 1..6 : LowerHex[i] = c) + 9

\* str.encode("utf-8") of one character.
Utf8Encode(cp) ==
  IF cp < 128 THEN <<cp>>
  ELSE IF cp < 2048 THEN <<192 + (cp \div 64), 128 + (cp % 64)>>
  ELSE <<224 + (cp \div 4096), 128 + ((cp \div 64) % 64), 128 + (cp % 64)>>

PctByte(b) == <<"%", HexChars[(b \div 16) + 1], HexChars[(b % 16) + 1]>>

RECURSIVE PctBytes(_)
PctBytes(bs) == IF bs = <<>> THEN <<>> ELSE PctByte(Head(bs)) \o PctBytes(Tail(bs))

\* urllib.parse.quote(s, safe=""): letters, digits and _.-~ are kept, every
\* other character becomes the %XX of each of its UTF-8 bytes.
QuoteChar(c) ==
  IF IsAscii(c) /\ (IsAlnum(c) \/ c \in {"_", ".", "-", "~"}) THEN <<c>>
  ELSE PctBytes(Utf8Encode(CodeOf[c]))

RECURSIVE Quote(_)
Quote(s) == IF s = <<>> THEN <<>> ELSE QuoteChar(Head(s)) \o Quote(Tail(s))

\* unquote_to_bytes over a text: a byte for each %XX and for each ASCII
\* character, and minus the code point for a character outside ASCII, which
\* unquote leaves as it is.
RECURSIVE UnquoteItems(_)
UnquoteItems(s) ==
  IF s = <<>> THEN <<>>
  ELSE IF s[1] = "%" /\ Len(s) >= 3 /\ IsHex(s[2]) /\ IsHex(s[3])
       THEN <<16 * HexVal(s[2]) + HexVal(s[3])>> \o UnquoteItems(SubSeq(s, 4, Len(s)))
       ELSE IF IsAscii(s[1]) THEN <<CodeOf[s[1]]>> \o UnquoteItems(Tail(s))
       ELSE <<0 - CodeOf[s[1]]>> \o UnquoteItems(Tail(s))

IsCont(bs, i) == i <= Len(bs) /\ bs[i] >= 128 /\ bs[i] <= 191

\* bytes.decode("utf-8", "replace"): sequences of one, two and three bytes;
\* any other byte decodes to the replacement character.
RECURSIVE Utf8Decode(_)
Utf8Decode(bs) ==
  IF bs = <<>> THEN <<>>
  ELSE LET b == bs[1] IN
       IF b < 0 THEN <<CharOf(0 - b)>> \o Utf8Decode(Tail(bs))
       ELSE IF b < 128 THEN <<CharOf(b)>> \o Utf8Decode(Tail(bs))
       ELSE IF b >= 194 /\ b <= 223 /\ IsCont(bs, 2)
            THEN <<CharOf((b - 192) * 64 + (bs[2] - 128))>>
                   \o Utf8Decode(SubSeq(bs, 3, Len(bs)))
       ELSE IF b >= 224 /\ b <= 239 /\ IsCont(bs, 2) /\ IsCont(bs, 3)
                 /\ (b - 224) * 4096 + (bs[2] - 128) * 64 >= 2048
            THEN <<CharOf((b - 224) * 4096 + (bs[2] - 128) * 64 + (bs[3] - 128))>>
                   \o Utf8Decode(SubSeq(bs, 4, Len(bs)))
       ELSE <<"UFFFD">> \o Utf8Decode(Tail(bs))

\* urllib.parse.unquote(s)
Unquote(s) == IF ~Contains(s, "%") THEN s ELSE Utf8Decode(UnquoteItems(s))

\* str.replace("+", " ")
PlusToSpace(s) == [i \in DOMAIN s |-> IF s[i] = "+" THEN " " ELSE s[i]]

(***************************************************************************)
(* urllib.parse.urlparse and parse_qs.                                     *)
(***************************************************************************)
IsSchemeChar(c) == IsAscii(c) /\ (IsAlnum(c) \/ c \in {"+", "-", "."})

\* _splitnetloc(url, 2): the position of the first of / ? # at or after the
\* third character, Len(url) + 1 if there is none.
RECURSIVE NetlocEnd(_, _)
NetlocEnd(url, p) ==
  IF p > Len(url) \/ url[p] \in {"/", "?", "#"} THEN p ELSE NetlocEnd(url, p + 1)

\* _check_bracketed_host: the text between [ and ] has to be an IPv6 (or
\* IPvFuture) literal; of the texts of the model only :: is one.
BracketedHostValid(netloc) ==
  LET a == Find(netloc, "[", 1)
      rest == SubSeq(netloc, a + 1, Len(netloc))
      b == Find(rest, "]", 1)
      host == IF b = 0 THEN rest ELSE SubSeq(rest, 1, b - 1)
  IN host = <<":", ":">>

UrlParts(ok, scheme, netloc, path, query, fragment) ==
  [ok |-> ok, scheme |-> scheme, netloc |-> netloc, path |-> path, query |-> query,
   fragment |-> fragment]

\* if '?' in url: url, query = url.split('?', 1)
SplitQuery(scheme, netloc, url, fragment) ==
  LET q == Find(url, "?", 1) IN
  IF q = 0 THEN UrlParts(TRUE, scheme, netloc, url, <<>>, fragment)
  ELSE UrlParts(TRUE, scheme, netloc, SubSeq(url, 1, q - 1), SubSeq(url, q + 1, Len(url)),
                fragment)

\* if '#' in url: url, fragment = url.split('#', 1)
SplitFragment(scheme, netloc, url) ==
  LET f == Find(url, "#", 1) IN
  IF f = 0 THEN SplitQuery(scheme, netloc, url, <<>>)
  ELSE SplitQuery(scheme, netloc, SubSeq(url, 1, f - 1), SubSeq(url, f + 1, Len(url)))

\* The checks of the netloc: ValueError for a bracket without its partner
\* and, in a strict interpreter, for a bracketed host that is no literal.
CheckNetloc(scheme, netloc, url, strict) ==
  IF \/ Contains(netloc, "[") /\ ~Contains(netloc, "]")
     \/ Contains(netloc, "]") /\ ~Contains(netloc, "[")
     \/ strict /\ Contains(netloc, "[") /\ Contains(netloc, "]")
          /\ ~BracketedHostValid(netloc)
  THEN UrlParts(FALSE, <<>>, <<>>, <<>>, <<>>, <<>>)
  ELSE SplitFragment(scheme, netloc, url)

\* if url[:2] == '//': netloc, url = _splitnetloc(url, 2)
SplitNetloc(scheme, url, strict) ==
  IF Len(url) >= 2 /\ url[1] = "/" /\ url[2] = "/"
  THEN CheckNetloc(scheme, SubSeq(url, 3, NetlocEnd(url, 3) - 1),
                   SubSeq(url, NetlocEnd(url, 3), Len(url)), strict)
  ELSE SplitFragment(scheme, <<>>, url)

\* The position of the colon that ends a scheme, 0 if url has no scheme.
SchemeEnd(url) ==
  LET i == Find(url, ":", 1) IN
  IF i > 1 /\ IsAscii(url[1]) /\ IsAlpha(url[1]) /\ \A k \in 1..(i - 1) : IsSchemeChar(url[k])
  THEN i ELSE 0

SplitScheme(url, strict) ==
  IF SchemeEnd(url) = 0 THEN SplitNetloc(<<>>, url, strict)
  ELSE SplitNetloc(SubSeq(url, 1, SchemeEnd(url) - 1),
                   SubSeq(url, SchemeEnd(url) + 1, Len(url)), strict)

\* urlsplit.  ok is FALSE where it raises ValueError.  strict is TRUE for an
\* interpreter that validates a bracketed host (3.11.4 and later).
urlsplit(url0, strict) == SplitScheme(SelectSeq(LStrip(url0), LAMBDA c : c # "\n"), strict)

\* One name=value field of parse_qsl: nothing for an empty field, a field
\* without = and a field with a blank value.
QsField(nv) ==
  LET i == Find(nv, "=", 1) IN
  IF nv = <<>> \/ i = 0 \/ i = Len(nv) THEN <<>>
  ELSE << <<Unquote(PlusToSpace(SubSeq(nv, 1, i - 1))),
            Unquote(PlusToSpace(SubSeq(nv, i + 1, Len(nv))))>> >>

RECURSIVE QsFields(_)
QsFields(fs) == IF fs = <<>> THEN <<>> ELSE QsField(Head(fs)) \o QsFields(Tail(fs))

\* parse_qsl(qs): the (name, value) pairs in their order in qs.
parse_qsl(qs) == IF qs = <<>> THEN <<>> ELSE QsFields(Split(qs, "&"))

\* parse_qs(qs).get(name, [""])[0]: the value of the first pair of that name.
FirstValue(pairs, name) ==
  LET hits == SelectSeq(pairs, LAMBDA p : p[1] = name) IN
  IF hits = <<>> THEN <<>> ELSE hits[1][2]

(***************************************************************************)
(* normalize_weibo_link                                                    *)
(***************************************************************************)
SearchTemplate ==
  <<"h", "t", "t", "p", "s", ":", "/", "/", "m", ".", "w", "e", "i", "b", "o", ".",
    "c", "n", "/", "s", "e", "a", "r", "c", "h", "?", "c", "o", "n", "t", "a", "i",
    "n", "e", "r", "i", "d", "=", "1", "0", "0", "1", "0", "3", "t", "y", "p", "e",
    "%", "3", "D", "1", "%", "2", "6", "q", "%", "3", "D">>

\* "".join(raw_link.split())
CleanLink(raw_link) == StripAll(raw_link)

\* The keyword without the strip() of the value of q.
KeywordOfUntrimmed(title, pairs) ==
  LET k == IF pairs # <<>> THEN FirstValue(pairs, <<"q">>) ELSE <<>> IN
  IF k = <<>> THEN Strip(title) ELSE k

\* The keyword of lines 55-57, given the pairs of the parsed query.
KeywordOf(title, pairs) ==
  LET k == IF pairs # <<>> THEN Strip(FirstValue(pairs, <<"q">>)) ELSE <<>> IN
  IF k = <<>> THEN Strip(title) ELSE k

\* Lines 58-59.
SearchUrl(keyword) ==
  [ok |-> TRUE, keyword |-> keyword, url |-> SearchTemplate \o Quote(keyword)]

\* Lines 53-59, given the result of urlparse.
NormalizeParsed(title, parsed) ==
  IF ~parsed.ok THEN [ok |-> FALSE, keyword |-> <<>>, url |-> <<>>]
  ELSE SearchUrl(KeywordOf(title, parse_qsl(parsed.query)))

\* ok is FALSE where urlparse raises ValueError.
normalize_weibo_link(title, raw_link, strict) ==
  NormalizeParsed(title, urlsplit(CleanLink(raw_link), strict))

(***************************************************************************)
(* html.escape and build_description                                       *)
(***************************************************************************)
\* html.escape(s, quote=False) of one character.
EscapeCharNoQuote(c) ==
  IF c = "&" THEN <<"&", "a", "m", "p", ";">>
  ELSE IF c = "<" THEN <<"&", "l", "t", ";">>
  ELSE IF c = ">" THEN <<"&", "g", "t", ";">>
  ELSE <<c>>

\* html.escape(s, quote=True) of one character.
EscapeChar(c) ==
  IF c = "&" THEN <<"&", "a", "m", "p", ";">>
  ELSE IF c = "<" THEN <<"&", "l", "t", ";">>
  ELSE IF c = ">" THEN <<"&", "g", "t", ";">>
  ELSE IF c = "\"" THEN <<"&", "q", "u", "o", "t", ";">>
  ELSE IF c = "'" THEN <<"&", "#", "x", "2", "7", ";">>
  ELSE <<c>>

\* html.escape(s, quote=True)
RECURSIVE HtmlEscape(_)
HtmlEscape(s) == IF s = <<>> THEN <<>> ELSE EscapeChar(Head(s)) \o HtmlEscape(Tail(s))

LiOpen == <<"<", "l", "i", ">", "<", "a", " ", "h", "r", "e", "f", "=", "\"">>

LiMid ==
  <<"\"", " ", "t", "a", "r", "g", "e", "t", "=", "\"", "_", "b", "l", "a", "n", "k",
    "\"", ">">>

LiClose == <<"<", "/", "a", ">", "<", "/", "l", "i", ">">>

HeadLines ==
  << <<"<", "h", "2", ">", "U5FAE", "U535A", "U70ED", "U641C", "U699C", "<", "/", "h",
       "2", ">">>,
     <<"<", "o", "l", ">">> >>

OlClose == <<"<", "/", "o", "l", ">">>

CaptureOpen ==
  <<"<", "p", ">", "<", "s", "m", "a", "l", "l", ">", "U91C7", "U96C6", "U65F6",
    "U95F4", ":", " ">>

CaptureClose == <<"<", "/", "s", "m", "a", "l", "l", ">", "<", "/", "p", ">">>

\* The line appended for one entry (lines 67-72), given its normalized link.
ListLine(title, link) == LiOpen \o HtmlEscape(link) \o LiMid \o HtmlEscape(title) \o LiClose

\* The two lines appended after the loop (lines 73-74).
TailLines(capture_time, pad) ==
  <<OlClose, CaptureOpen \o StrftimeCapture(capture_time, pad) \o CaptureClose>>

(***************************************************************************)
(* The inputs of the model.                                                *)
(***************************************************************************)
\* lastBuildDate elements: absent, empty, blank, the two formats, a text in
\* another format, and dates whose universal time leaves year 1..9999 or
\* has a year of three digits.
LbdSpec ==
  <<"W", "e", "d", ",", " ", "1", "5", " ", "M", "a", "r", " ", "2", "0", "2", "3",
    " ", "1", "0", ":", "0", "0", ":", "0", "0", " ", "G", "M", "T">>

LbdNoMarker ==
  <<" ", "S", "u", "n", ",", " ", "0", "1", " ", "J", "a", "n", " ", "2", "0", "2",
    "3", " ", "0", "0", ":", "0", "3", ":", "0", "0", "\n">>

LbdYearOne ==
  <<"M", "o", "n", ",", " ", "0", "1", " ", "J", "a", "n", " ", "0", "0", "0", "1",
    " ", "0", "8", ":", "0", "0", ":", "0", "0", " ", "G", "M", "T">>

LbdYear1000 ==
  <<"W", "e", "d", ",", " ", "0", "1", " ", "J", "a", "n", " ", "1", "0", "0", "0",
    " ", "0", "8", ":", "0", "5", ":", "5", "9">>

LbdOtherFormat ==
  <<"2", "0", "2", "3", "-", "0", "3", "-", "1", "5", " ", "1", "0", ":", "0", "0",
    ":", "0", "0">>

LbdPool ==
  {None, <<>>, <<" ", "\n">>, LbdSpec, LbdNoMarker, LbdYearOne, LbdYear1000,
   LbdOtherFormat}

\* Readings of the clock, in universal time.
NowPool == {MkDt(2026, 11, 2, 3, 4, 5, 0), MkDt(2027, 12, 31, 18, 30, 0, 0)}

Entry(title, link) == [title |-> title, link |-> link]

\* item elements: title and link absent, texts with markup characters, a
\* blank link, a link that is no URL.
EntryPool ==
  {Entry(None, None),
   Entry(<<"<", "&", "\"">>, <<"h", ":", "/", "/", "x", "/", "?", "p", "=", "a">>),
   Entry(<<" ", "t", " ">>, <<" ", "\n">>),
   Entry(<<" ">>, <<"/", "/", "[">>),
   Entry(<<"a", " ", "'", ">">>, <<"?", "q", "=", "%", "3", "C", "\n", "&", "q", "=", "k">>)}

RECURSIVE SeqsUpTo(_, _)
SeqsUpTo(S, n) ==
  IF n = 0 THEN {<<>>}
  ELSE LET R == SeqsUpTo(S, n - 1) IN R \cup {Append(r, x) : r \in R, x \in S}

Document(hasChannel, lbd, entries) ==
  [hasChannel |-> hasChannel, lastBuildDate |-> lbd, entries |-> entries]

\* The well-formed documents: one without channel, and those with one.
Documents ==
  {Document(FALSE, None, <<>>)}
    \cup {Document(TRUE, lbd, es) : lbd \in LbdPool, es \in SeqsUpTo(EntryPool, MaxItems)}

Platforms == [pad : BOOLEAN, strict : BOOLEAN]

(***************************************************************************)
(* The output document.                                                    *)
(***************************************************************************)
Placeholder == <<"U65E0", "U6807", "U9898">>

ChannelTitle ==
  <<"U5FAE", "U535A", "U70ED", "U641C", "U699C", " ", "-", " ", "U805A", "U5408", "U7248">>

FeedLink ==
  <<"h", "t", "t", "p", "s", ":", "/", "/", "t", "o", "p", "h", "u", "b", ".", "t",
    "o", "d", "a", "y", "/", "n", "/", "K", "q", "n", "d", "g", "x", "e", "L", "l", "9">>

ChannelDescription ==
  <<"U6BCF", "U4E2A", "U6761", "U76EE", "U5305", "U542B", "U4E00", "U4E2A", "U65F6",
    "U523B", "U7684", "U6240", "U6709", "U70ED", "U641C">>

Language == <<"z", "h", "-", "c", "n">>

ItemTitlePrefix == <<"U5FAE", "U535A", "U70ED", "U641C", " ", "-", " ">>

GuidPrefix == <<"w", "e", "i", "b", "o", "-", "h", "o", "t", "-">>

AggItem(title, description, pubDate, guid) ==
  [title |-> title, link |-> FeedLink, description |-> description,
   pubDate |-> pubDate, guid |-> guid, isPermaLink |-> FALSE]

Rss(lastBuildDate, items) ==
  [version |-> <<"2", ".", "0">>,
   channel |-> [title |-> ChannelTitle, link |-> FeedLink,
                description |-> ChannelDescription, language |-> Language,
                lastBuildDate |-> lastBuildDate, items |-> items]]

NoRss == Rss(<<>>, <<>>)

\* The file at the output path: absent, left by an earlier run, or written
\* by this run.
File(kind, doc) == [kind |-> kind, doc |-> doc]

NoCapture == [kind |-> "none", bj |-> NoDt, gmt |-> NoDt]

\* get_text(elem): "" for no element, else the stripped text.
get_text(elem) == IF elem = None THEN <<>> ELSE Strip(elem)

\* a or b of two strings
OrElse(a, b) == IF a = <<>> THEN b ELSE a

\* A channel that is made up where the document has none.
FindChannelOrEmpty(d) ==
  [present |-> TRUE, lastBuildDate |-> d.lastBuildDate, entries |-> d.entries]

\* The item elements taken from the last to the first.
ItemAtReversed(ch, k) == ch.entries[Len(ch.entries) + 1 - k]

\* channel.findall("item"): the k-th item element in document order.
ItemAt(ch, k) == ch.entries[k]

\* root.find("channel"): present is FALSE where find returns None.
FindChannel(d) ==
  [present |-> d.hasChannel, lastBuildDate |-> d.lastBuildDate, entries |-> d.entries]

(***************************************************************************)
(* State.                                                                  *)
(***************************************************************************)
VARIABLES
  doc,       \* the document at the input path
  utcnow,    \* the reading of the clock
  platform,  \* the interpreter: how %Y pads, whether bracketed hosts are checked
  file,      \* the file at the output path
  pc,        \* the position of aggregate_rss
  channel,   \* the channel element found
  capture,   \* capture_time_bj and capture_time_gmt
  items,     \* the (title, link) pairs collected
  lines,     \* the lines of build_description
  done,      \* the number of items build_description has rendered
  rss,       \* the output tree under construction
  error,     \* the exception that ended the run
  dval,      \* timestamp round trip: the lastBuildDate text
  dres,      \* its parse
  dtext,     \* the formatted universal time
  dre,       \* the parse of the formatted text
  dpc,       \* the position of the round trip
  ltitle,    \* link normalization: the title
  llink,     \* the raw link
  lres,      \* the result of normalize_weibo_link
  lline,     \* the list line rendered from it
  lpc        \* the position of the normalization

runVars == <<doc, file, pc, channel, capture, items, lines, done, rss, error>>

dateVars == <<dval, dres, dtext, dre, dpc>>

linkVars == <<ltitle, llink, lres, lline, lpc>>

vars == <<utcnow, platform, runVars, dateVars, linkVars>>

NoChannel == [present |-> FALSE, lastBuildDate |-> None, entries |-> <<>>]

NoLink == [ok |-> TRUE, keyword |-> <<>>, url |-> <<>>]

RunIdle ==
  /\ doc = Document(FALSE, None, <<>>)
  /\ file = File("absent", NoRss)
  /\ pc = "idle"
  /\ channel = NoChannel
  /\ capture = NoCapture
  /\ items = <<>>
  /\ lines = <<>>
  /\ done = 0
  /\ rss = NoRss
  /\ error = "none"

DateIdle ==
  /\ dval = None
  /\ dres = NoCapture
  /\ dtext = <<>>
  /\ dre = NoCapture
  /\ dpc = "idle"

LinkIdle ==
  /\ ltitle = <<>>
  /\ llink = <<>>
  /\ lres = NoLink
  /\ lline = <<>>
  /\ lpc = "idle"

(***************************************************************************)
(* aggregate_rss                                                           *)
(***************************************************************************)
Init ==
  /\ doc \in Documents
  /\ utcnow \in NowPool
  /\ platform \in Platforms
  /\ file \in {File("absent", NoRss), File("old", NoRss)}
  /\ pc = "read"
  /\ channel = NoChannel
  /\ capture = NoCapture
  /\ items = <<>>
  /\ lines = <<>>
  /\ done = 0
  /\ rss = NoRss
  /\ error = "none"
  /\ DateIdle
  /\ LinkIdle

\* Lines 94-98: parse the input, find the channel, raise if there is none.
ReadInput ==
  /\ pc = "read"
  /\ channel' = FindChannel(doc)
  /\ IF channel'.present
     THEN pc' = "time" /\ error' = error
     ELSE pc' = "failed" /\ error' = "ValueError: Missing channel in RSS input."
  /\ UNCHANGED <<doc, file, capture, items, lines, done, rss>>
  /\ UNCHANGED <<utcnow, platform, dateVars, linkVars>>

\* Lines 100-102: the capture time of the channel's lastBuildDate.
ResolveTime ==
  /\ pc = "time"
  /\ capture' = parse_last_build_date(get_text(channel.lastBuildDate), utcnow)
  /\ IF capture'.kind = "overflow"
     THEN pc' = "failed" /\ error' = "OverflowError"
     ELSE pc' = "collect" /\ error' = error
  /\ UNCHANGED <<doc, file, channel, items, lines, done, rss>>
  /\ UNCHANGED <<utcnow, platform, dateVars, linkVars>>

\* Lines 105-108: one turn of the loop over the item elements.
CollectItem ==
  /\ pc = "collect"
  /\ Len(items) < Len(channel.entries)
  /\ LET item == ItemAt(channel, Len(items) + 1)
         title == OrElse(get_text(item.title), Placeholder)
         link == OrElse(get_text(item.link), <<"#">>)
     IN items' = Append(items, <<title, link>>)
  /\ UNCHANGED <<doc, file, pc, channel, capture, lines, done, rss, error>>
  /\ UNCHANGED <<utcnow, platform, dateVars, linkVars>>

\* Lines 111-127 and 64: the channel with its fixed elements and
\* lastBuildDate, the item with its title and link, and the first lines of
\* the description.
BuildChannel ==
  /\ pc = "collect"
  /\ Len(items) = Len(channel.entries)
  /\ rss' = Rss(StrftimeRfc822(capture.gmt, platform.pad),
                <<AggItem(ItemTitlePrefix \o StrftimeTitle(capture.bj, platform.pad),
                          None, None, None)>>)
  /\ lines' = HeadLines
  /\ done' = 0
  /\ pc' = "describe"
  /\ UNCHANGED <<doc, file, channel, capture, items, error>>
  /\ UNCHANGED <<utcnow, platform, dateVars, linkVars>>

\* Lines 68-72 for a title and its normalized link, or the ValueError of
\* line 67.
RenderWith(title, link) ==
  IF link.ok
  THEN /\ lines' = Append(lines, ListLine(title, link.url))
       /\ done' = done + 1
       /\ pc' = pc
       /\ error' = error
  ELSE /\ pc' = "failed"
       /\ error' = "ValueError: Invalid IPv6 URL"
       /\ UNCHANGED <<lines, done>>

\* Lines 65-72: one turn of the loop of build_description.
RenderEntry ==
  /\ pc = "describe"
  /\ done < Len(items)
  /\ RenderWith(items[done + 1][1],
                normalize_weibo_link(items[done + 1][1], items[done + 1][2], platform.strict))
  /\ UNCHANGED <<doc, file, channel, capture, items, rss>>
  /\ UNCHANGED <<utcnow, platform, dateVars, linkVars>>

\* Lines 73-75 and 129-138: the description, pubDate and guid of the item.
FinishItem ==
  /\ pc = "describe"
  /\ done = Len(items)
  /\ lines' = lines \o TailLines(capture.bj, platform.pad)
  /\ rss' = Rss(rss.channel.lastBuildDate,
                <<AggItem(rss.channel.items[1].title, JoinLines(lines'),
                          StrftimeRfc822(capture.gmt, platform.pad),
                          GuidPrefix \o StrftimeGuid(capture.bj, platform.pad))>>)
  /\ pc' = "write"
  /\ UNCHANGED <<doc, file, channel, capture, items, done, error>>
  /\ UNCHANGED <<utcnow, platform, dateVars, linkVars>>

\* Lines 140-142: indent changes only the blank text between elements; the
\* tree is written over whatever the output path held.
WriteOutput ==
  /\ pc = "write"
  /\ file' = File("written", rss)
  /\ pc' = "done"
  /\ UNCHANGED <<doc, channel, capture, items, lines, done, rss, error>>
  /\ UNCHANGED <<utcnow, platform, dateVars, linkVars>>

Next ==
  \/ ReadInput
  \/ ResolveTime
  \/ CollectItem
  \/ BuildChannel
  \/ RenderEntry
  \/ FinishItem
  \/ WriteOutput

Spec == Init /\ [][Next]_vars

(***************************************************************************)
(* The timestamp on its own: parse_last_build_date on the text of a feed,  *)
(* the text written to lastBuildDate and pubDate, and the parse of that    *)
(* text by the next run.                                                   *)
(***************************************************************************)
Stamp(d, mon, y, h, mi, s, suffix) ==
  <<"W", "e", "d", ",", " ">> \o d \o <<" ">> \o mon \o <<" ">> \o y \o <<" ">>
    \o h \o <<":">> \o mi \o <<":">> \o s \o suffix

StampDays == {<<"0", "1">>, <<"5">>, <<"2", "9">>, <<"3", "1">>}

StampMonths == {MonAbbr[1], MonAbbr[2], MonAbbr[3], MonAbbr[12]}

StampYears ==
  {<<"0", "0", "0", "1">>, <<"1", "0", "0", "0">>, <<"2", "0", "2", "3">>,
   <<"2", "0", "2", "4">>}

StampHours == {<<"0", "0">>, <<"0", "8">>, <<"2", "3">>}

StampMinutes == {<<"0", "5">>, <<"5", "9">>}

StampSeconds == {<<"0", "0">>, <<"5", "9">>, <<"6", "0">>}

StampSuffixes == {<<>>, <<" ", "G", "M", "T">>, <<" ", "U", "T", "C">>}

DateInputs ==
  LbdPool \cup
    {Stamp(d, mon, y, h, mi, s, suffix) :
       d \in StampDays, mon \in StampMonths, y \in StampYears, h \in StampHours,
       mi \in StampMinutes, s \in StampSeconds, suffix \in StampSuffixes}

InitDate ==
  /\ dval \in DateInputs
  /\ dres = NoCapture
  /\ dtext = <<>>
  /\ dre = NoCapture
  /\ dpc = "parse"
  /\ utcnow \in NowPool
  /\ platform \in {p \in Platforms : ~p.strict}
  /\ RunIdle
  /\ LinkIdle

\* Lines 21-38.
DateParse ==
  /\ dpc = "parse"
  /\ dres' = parse_last_build_date(dval, utcnow)
  /\ dpc' = IF dres'.kind = "overflow" THEN "raised" ELSE "format"
  /\ UNCHANGED <<dval, dtext, dre>>
  /\ UNCHANGED <<utcnow, platform, runVars, linkVars>>

\* Lines 119-121 and 133-135.
DateFormat ==
  /\ dpc = "format"
  /\ dtext' = StrftimeRfc822(dres.gmt, platform.pad)
  /\ dpc' = "reparse"
  /\ UNCHANGED <<dval, dres, dre>>
  /\ UNCHANGED <<utcnow, platform, runVars, linkVars>>

\* Lines 21-38 on the text that was written.
DateReparse ==
  /\ dpc = "reparse"
  /\ dre' = parse_last_build_date(dtext, utcnow)
  /\ dpc' = "reparsed"
  /\ UNCHANGED <<dval, dres, dtext>>
  /\ UNCHANGED <<utcnow, platform, runVars, linkVars>>

NextDate ==
  \/ DateParse
  \/ DateFormat
  \/ DateReparse

SpecDate == InitDate /\ [][NextDate]_vars

(***************************************************************************)
(* The link on its own: normalize_weibo_link on every short text over the  *)
(* characters that steer urlparse and parse_qs, and on longer links.       *)
(***************************************************************************)
LinkAlphabet == {"q", "=", "?", "+", "[", "/"}

LongLinks ==
  {<<"h", "t", "t", "p", "s", ":", "/", "/", "e", "x", "a", "m", "p", "l", "e",
    ".", "c", "o", "m", "/", "?", "q", "=", "k", "e", "y", "w", "o", "r", "d", "A">>,
   <<"h", "t", "t", "p", "s", ":", "/", "/", "e", "x", "a", "m", "p", "l", "e",
    ".", "c", "o", "m", "/", "h", "o", "t">>,
   <<"h", "t", "t", "p", ":", "/", "/", "[">>,
   <<"h", "t", "t", "p", ":", "/", "/", "[", "x", "]", "/", "?", "q", "=", "a">>,
   <<"h", "t", "t", "p", ":", "/", "/", "[", ":", ":", "]", "/", "?", "q", "=",
    "a">>,
   <<" ", "h", "t", "t", "p", ":", "/", "/", "x", "/", "?", "a", "=", "1", "&",
    "q", "=", "%", "E", "6", "%", "9", "7", "%", "A", "0", "\n", "&", "q", "=", "b",
    " ">>,
   <<"?", "q", "=", "+", "a", "+">>,
   <<"?", "q", "=", "&", "q", "=", "b">>,
   <<"x", "#", "?", "q", "=", "a">>,
   <<"?", "%", "7", "1", "=", "a", "%", "2", "0", "b">>,
   <<"#">>}

LinkInputs == SeqsUpTo(LinkAlphabet, MaxLinkLen) \cup LongLinks

TitlePool ==
  {<<"i", "g", "n", "o", "r", "e", "d">>,
   <<"f", "a", "l", "l", "b", "a", "c", "k", " ", "t", "i", "t", "l", "e">>,
   <<" ", "<", "&", "\"", "'", ">", " ">>,
   <<"U65E0", "U6807", "U9898">>}

InitLink ==
  /\ ltitle \in TitlePool
  /\ llink \in LinkInputs
  /\ lres = NoLink
  /\ lline = <<>>
  /\ lpc = "normalize"
  /\ utcnow \in {MkDt(2026, 11, 2, 3, 4, 5, 0)}
  /\ platform \in {p \in Platforms : ~p.pad}
  /\ RunIdle
  /\ DateIdle

\* Line 67, lines 48-59.
LinkNormalize ==
  /\ lpc = "normalize"
  /\ lres' = normalize_weibo_link(ltitle, llink, platform.strict)
  /\ lpc' = IF lres'.ok THEN "render" ELSE "raised"
  /\ UNCHANGED <<ltitle, llink, lline>>
  /\ UNCHANGED <<utcnow, platform, runVars, dateVars>>

\* Lines 68-72.
LinkRender ==
  /\ lpc = "render"
  /\ lline' = ListLine(ltitle, lres.url)
  /\ lpc' = "rendered"
  /\ UNCHANGED <<ltitle, llink, lres>>
  /\ UNCHANGED <<utcnow, platform, runVars, dateVars>>

NextLink ==
  \/ LinkNormalize
  \/ LinkRender

SpecLink == InitLink /\ [][NextLink]_vars

(***************************************************************************)
(* Properties.                                                             *)
(***************************************************************************)
Ended == pc \in {"done", "failed"}

\* The number of occurrences of c in t.
Count(t, c) == Len(SelectSeq(t, LAMBDA x : x = c))

Description == rss.channel.items[1].description

\* The title and the link element of an entry as the run is to process them.
TitleOf(e) == IF e.title = None \/ Strip(e.title) = <<>> THEN Placeholder ELSE Strip(e.title)

LinkOf(e) == IF e.link = None \/ Strip(e.link) = <<>> THEN <<"#">> ELSE Strip(e.link)

HasGap(e) ==
  \/ e.title = None
  \/ Strip(e.title) = <<>>
  \/ e.link = None
  \/ Strip(e.link) = <<>>

\* C1: for every input document with a channel, whatever its items, the run
\* writes an output document whose channel holds exactly one item.
RunWritesExactlyOneItem ==
  (doc.hasChannel /\ Ended) =>
    (pc = "done" /\ file.kind = "written" /\ Len(file.doc.channel.items) = 1)

\* C2: a lastBuildDate in either recognized format is taken as local wall
\* clock and the universal time is exactly 8 hours earlier; the text
\* "Wed, 15 Mar 2023 10:00:00 GMT" gives pubDate "Wed, 15 Mar 2023 02:00:00 GMT".
UniversalIsEightHoursEarlier ==
  /\ (dpc # "parse" /\ (Strptime(Strip(dval), TRUE).ok \/ Strptime(Strip(dval), FALSE).ok)) =>
       /\ dres.kind = "parsed"
       /\ dres.bj.h * 60 + dres.bj.mi >= 480 =>
            /\ <<dres.gmt.y, dres.gmt.mo, dres.gmt.d>> = <<dres.bj.y, dres.bj.mo, dres.bj.d>>
            /\ dres.gmt.h * 60 + dres.gmt.mi = dres.bj.h * 60 + dres.bj.mi - 480
            /\ dres.gmt.s = dres.bj.s
  /\ (dval = LbdSpec /\ dpc \in {"reparse", "reparsed"}) =>
       dtext = <<"W", "e", "d", ",", " ", "1", "5", " ", "M", "a", "r", " ", "2", "0", "2", "3", " ", "0", "2", ":", "0", "0", ":", "0", "0", " ", "G", "M", "T">>

\* C3, as the spec states it: the parse of the formatted universal time has
\* the wall-clock fields of the original local-zone instant.
RoundTripRecoversLocalFields ==
  (dpc = "reparsed" /\ dres.kind = "parsed") =>
    (dre.kind = "parsed" /\ WallClock(dre.bj) = WallClock(dres.bj))

\* C3, amended: for a parsed capture instant whose universal-time year has
\* four digits, the parse of the formatted universal time is a parsed
\* instant with the wall-clock fields of the universal-time form.
RoundTripRecoversUniversalFields ==
  (dpc = "reparsed" /\ dres.kind = "parsed" /\ dres.gmt.y >= 1000) =>
    (dre.kind = "parsed" /\ WallClock(dre.bj) = WallClock(dres.gmt))

\* A round trip of an afternoon hour that crosses a date line: the local
\* wall clock is on the first of a month, the universal one the day before.
RoundTripWitness ==
  /\ dpc = "reparsed"
  /\ dres.kind = "parsed"
  /\ dre.kind = "parsed"
  /\ dres.bj.d = 1
  /\ dres.gmt.h >= 13
  /\ dre.bj.d = dres.gmt.d
  /\ dre.bj.d # dres.bj.d

\* C4: without a channel the run ends in an error before the write step and
\* the file at the output path stays as it was.
NoChannelNoWrite ==
  [][~doc.hasChannel => (pc' = "failed" /\ file' = file /\ error' # "none")]_vars

NoChannelWitness ==
  /\ ~doc.hasChannel
  /\ pc = "failed"
  /\ error = "ValueError: Missing channel in RSS input."
  /\ file = File("old", NoRss)

\* A lastBuildDate that is absent, empty, blank or in neither format.
FallsBack(lbd) ==
  \/ lbd = None
  \/ Strip(lbd) = <<>>
  \/ ~Strptime(Strip(lbd), TRUE).ok /\ ~Strptime(Strip(lbd), FALSE).ok

\* C5: an absent, empty or blank lastBuildDate, or one in neither format,
\* raises nothing and gives the current instant in the local zone and in
\* universal time; the run then succeeds and writes the output file.
FallbackRunSucceeds ==
  (doc.hasChannel /\ FallsBack(doc.lastBuildDate)) =>
    /\ pc \notin {"read", "time"} =>
         /\ capture.kind = "defaulted"
         /\ WallClock(capture.gmt) = WallClock(utcnow)
         /\ capture.bj.off = 480
         /\ AstimezoneUtc(capture.bj).dt = capture.gmt
    /\ pc # "failed"
    /\ pc = "done" => file.kind = "written"

\* The query of a link as RFC 3986 delimits it: what follows the first ?
\* in the part before the first #, once the whitespace is taken out.
RefQuery(link) ==
  LET c == SelectSeq(link, LAMBDA x : x \notin Spaces)
      h == Find(c, "#", 1)
      pre == IF h = 0 THEN c ELSE SubSeq(c, 1, h - 1)
      q == Find(pre, "?", 1)
  IN IF q = 0 THEN <<>> ELSE SubSeq(pre, q + 1, Len(pre))

\* The decoded values of the fields named q that have a value.
RefQValues(link) ==
  LET fs == Split(RefQuery(link), "&")
      IsQ(f) == LET i == Find(f, "=", 1) IN
                /\ i > 1
                /\ i < Len(f)
                /\ Unquote(PlusToSpace(SubSeq(f, 1, i - 1))) = <<"q">>
      qs == SelectSeq(fs, IsQ)
  IN [k \in DOMAIN qs |->
        Unquote(PlusToSpace(SubSeq(qs[k], Find(qs[k], "=", 1) + 1, Len(qs[k]))))]

NormalizeNeverFails ==
  (lpc # "normalize") =>
    /\ lpc # "raised"
    /\ lres.ok
    /\ Len(lres.url) >= Len(SearchTemplate)
    /\ SubSeq(lres.url, 1, Len(SearchTemplate)) = SearchTemplate

Entities ==
  {<<"&", "a", "m", "p", ";">>, <<"&", "l", "t", ";">>, <<"&", "g", "t", ";">>,
   <<"&", "q", "u", "o", "t", ";">>, <<"&", "#", "x", "2", "7", ";">>}

StartsEntity(t, i) ==
  \E e \in Entities : i + Len(e) - 1 <= Len(t) /\ SubSeq(t, i, i + Len(e) - 1) = e

\* C8: the description holds no <, >, " or & that comes from a title or a
\* link: its < and > are the 8 of the fixed lines and 4 for each entry, its
\* quotes the 4 of each entry's attributes, and every & starts an entity.
DescriptionIsEscaped ==
  (pc \in {"write", "done"}) =>
    /\ Count(Description, "<") = 8 + 4 * Len(items)
    /\ Count(Description, ">") = 8 + 4 * Len(items)
    /\ Count(Description, "\"") = 4 * Len(items)
    /\ Count(Description, "'") = 0
    /\ \A i \in DOMAIN Description : Description[i] = "&" => StartsEntity(Description, i)

\* A description with a title of markup characters that is also the search
\* keyword of its href, and with a title holding ' and >.
EscapedWitness ==
  /\ pc = "done"
  /\ \E k \in DOMAIN items : items[k][1] = <<"<", "&", "\"">>
  /\ \E k \in DOMAIN items : Contains(items[k][1], "'") /\ Contains(items[k][1], ">")
  /\ Count(Description, "&") >= 5

\* C9: an entry without title or link is processed with the placeholder
\* title or the link "#", is kept in the list, and the run does not fail.
GapEntriesAreKept ==
  (doc.hasChannel /\ \E k \in DOMAIN doc.entries : HasGap(doc.entries[k])) =>
    /\ \A k \in DOMAIN items :
         /\ items[k][1] = TitleOf(doc.entries[k])
         /\ items[k][2] = LinkOf(doc.entries[k])
    /\ pc # "failed"
    /\ pc \in {"write", "done"} => Len(lines) = Len(doc.entries) + 4

\* C10: the ordered list of the description has one entry for each item of
\* the input, the k-th built from the k-th item: its title as anchor text,
\* its normalized link as href.
ListFollowsInput ==
  (pc \in {"write", "done"}) =>
    /\ Len(lines) = Len(doc.entries) + 4
    /\ Description = JoinLines(lines)
    /\ lines[2] = <<"<", "o", "l", ">">>
    /\ lines[Len(doc.entries) + 3] = OlClose
    /\ \A k \in DOMAIN doc.entries :
         LET title == TitleOf(doc.entries[k])
             href == normalize_weibo_link(title, LinkOf(doc.entries[k]), platform.strict).url
         IN lines[k + 2] = LiOpen \o HtmlEscape(href) \o LiMid \o HtmlEscape(title) \o LiClose

\* A written list of two different entries.
ListWitness ==
  /\ pc = "done"
  /\ Len(doc.entries) = 2
  /\ lines[3] # lines[4]
  /\ file.doc.channel.items[1].description = JoinLines(lines)

====
